---- MODULE Spec2Model ----
(***************************************************************************)
(* Model of the pngme chunk codec: ChunkType (src/src/chunk_type.rs) and   *)
(* Chunk (src/src/chunk.rs), with the error helper of src/src/main.rs.     *)
(*                                                                         *)
(* Bytes are naturals 0..255, byte strings are sequences of bytes, a Rust  *)
(* &str is a sequence of Unicode scalar values (code points), a Result is  *)
(* a record [ok, val, err].                                                *)
(***************************************************************************)
EXTENDS Naturals, Integers, Sequences, FiniteSets, TLC

VARIABLES pc, tin, tres, src, chunk, enc, mut, buf, res, sres

vars == <<pc, tin, tres, src, chunk, enc, mut, buf, res, sres>>

(***************************************************************************)
(* Bounds of the model.                                                    *)
(***************************************************************************)
\* longest payload handed to Chunk::new
MaxData == 2
\* longest string handed to ChunkType::from_str
MaxStr == 5

\* payload bytes: 'T', and the two bytes of the UTF-8 encoding of U+00E9
DataBytes == {84, 195, 169}
\* raw type bytes: the letters' range ends and their outer neighbours
TypeBytes == {64, 65, 90, 91, 96, 97, 122, 123}
\* characters of type strings: '1', 'R', 's', 'z', U+00E9
StrChars == {49, 82, 115, 122, 233}
\* type codes of the chunks built: "RuSt", "Rust", "bLOb" as strings, "IDAT" as bytes
CodecTypes ==
    {[kind |-> "str", val |-> <<82, 117, 83, 116>>],
     [kind |-> "str", val |-> <<82, 117, 115, 116>>],
     [kind |-> "str", val |-> <<98, 76, 79, 98>>],
     [kind |-> "bytes", val |-> <<73, 68, 65, 84>>]}
\* type fields of the buffers received from a foreign writer: "RuSt", "Rust", "Ru1t"
WireTypes == {<<82, 117, 83, 116>>, <<82, 117, 115, 116>>, <<82, 117, 49, 116>>}
\* bytes appended to an encoded buffer
ExtraBytes == {0}

SeqsUpTo(S, n) == UNION {[1..k -> S] : k \in 0..n}

(***************************************************************************)
(* Fixed-width integers.  A u8 is a natural 0..255.  A u32 (and a usize   *)
(* holding a u32 plus a small offset) is a pair <<hi, lo>> of its upper    *)
(* and lower 16 bits, so that every 32-bit value is representable.         *)
(***************************************************************************)
Half == 65536

\* the u32 (or usize) holding the natural n
Wide(n) == << n \div Half, n % Half >>

\* x + n on usize, for a small natural n
WideAdd(x, n) == << x[1] + ((x[2] + n) \div Half), (x[2] + n) % Half >>

\* x >> n on u8
Shr(x, n) == x \div (2^n)

RECURSIVE Xor(_, _)
\* bitwise exclusive or of two naturals below 2^16
Xor(a, b) ==
    IF a = 0 THEN b
    ELSE IF b = 0 THEN a
    ELSE (((a % 2) + (b % 2)) % 2) + 2 * Xor(a \div 2, b \div 2)

\* a ^ b on u32
Xor32(a, b) == << Xor(a[1], b[1]), Xor(a[2], b[2]) >>

\* x >> 1 on u32
Shr1(x) == << x[1] \div 2, (x[1] % 2) * 32768 + (x[2] \div 2) >>

\* x >> 8 on u32
Shr8(x) == << x[1] \div 256, (x[1] % 256) * 256 + (x[2] \div 256) >>

\* u32::to_be_bytes
to_be_bytes(x) == << x[1] \div 256, x[1] % 256, x[2] \div 256, x[2] % 256 >>

\* u32::from_be_bytes
from_be_bytes(b) == << b[1] * 256 + b[2], b[3] * 256 + b[4] >>

(***************************************************************************)
(* CRC-32/ISO-HDLC (crc::CRC_32_ISO_HDLC): reflected polynomial            *)
(* 0xEDB88320, init 0xFFFFFFFF, xorout 0xFFFFFFFF.                         *)
(***************************************************************************)
CrcPoly == << 60856, 33568 >>
CrcInit == << 65535, 65535 >>
CrcXorOut == << 65535, 65535 >>

RECURSIVE CrcShift(_, _)
\* k steps of the reflected bitwise division of register r
CrcShift(r, k) ==
    IF k = 0 THEN r
    ELSE CrcShift(IF r[2] % 2 = 1 THEN Xor32(Shr1(r), CrcPoly) ELSE Shr1(r), k - 1)

CrcTable == [n \in 0..255 |-> CrcShift(<<0, n>>, 8)]

RECURSIVE CrcUpdate(_, _, _)
\* the register after bytes[i..]
CrcUpdate(r, bytes, i) ==
    IF i > Len(bytes) THEN r
    ELSE CrcUpdate(Xor32(CrcTable[Xor(r[2] % 256, bytes[i])], Shr8(r)), bytes, i + 1)

\* Crc::<u32>::new(&crc::CRC_32_ISO_HDLC).checksum(bytes)
checksum(bytes) == Xor32(CrcUpdate(CrcInit, bytes, 1), CrcXorOut)

(***************************************************************************)
(* Error values.  A &'static str error is its message; the Error of        *)
(* main.rs (Box<dyn std::error::Error>) is the boxed value's type and      *)
(* message.                                                                *)
(***************************************************************************)
StrError(msg) == [ty |-> "&str", msg |-> msg]
IoError(msg) == [ty |-> "io::Error", msg |-> msg]
NoError == [ty |-> "none", msg |-> ""]

\* throw_string_error: the argument s is not used
throw_string_error(s) == IoError("Bad Header")

(***************************************************************************)
(* ChunkType                                                               *)
(***************************************************************************)
\* variant of InRange: one range from 'A' to 'z', the six bytes between included
InRange_one_span(b) == (b >= 65) /\ (b <= 122)

\* the closure of try_from and is_valid: ((b >= 65) && (b <= 90)) || (b >= 97) && (b <= 122)
InRange(b) == ((b >= 65) /\ (b <= 90)) \/ ((b >= 97) /\ (b <= 122))

\* char::is_ascii_alphabetic
is_ascii_alphabetic(c) == (c >= 65 /\ c <= 90) \/ (c >= 97 /\ c <= 122)

\* char::len_utf8
len_utf8(c) == IF c < 128 THEN 1 ELSE IF c < 2048 THEN 2 ELSE IF c < 65536 THEN 3 ELSE 4

RECURSIVE StrLen(_)
\* str::len: the length of the string in bytes
StrLen(s) == IF s = <<>> THEN 0 ELSE len_utf8(Head(s)) + StrLen(Tail(s))

\* str::as_bytes of a string of ASCII characters
AsciiBytes(s) == [i \in 1..Len(s) |-> s[i]]

NoType == <<>>

\* impl TryFrom<[u8; 4]> for ChunkType
ChunkType_try_from(value) ==
    IF ~(\A i \in 1..4 : InRange(value[i]))
    THEN [ok |-> FALSE, val |-> NoType, err |-> StrError("Byte value out of range")]
    ELSE [ok |-> TRUE, val |-> value, err |-> NoError]

\* variant of from_str: the length is checked before the characters
ChunkType_from_str_length_first(s) ==
    IF StrLen(s) # 4
    THEN [ok |-> FALSE, val |-> NoType, err |-> StrError("String length incorrect size")]
    ELSE IF ~(\A i \in 1..Len(s) : is_ascii_alphabetic(s[i]))
    THEN [ok |-> FALSE, val |-> NoType, err |-> StrError("Character value out of range")]
    ELSE [ok |-> TRUE, val |-> AsciiBytes(s), err |-> NoError]

\* impl FromStr for ChunkType
ChunkType_from_str(s) ==
    IF ~(\A i \in 1..Len(s) : is_ascii_alphabetic(s[i]))
    THEN [ok |-> FALSE, val |-> NoType, err |-> StrError("Character value out of range")]
    ELSE IF StrLen(s) # 4
    THEN [ok |-> FALSE, val |-> NoType, err |-> StrError("String length incorrect size")]
    ELSE [ok |-> TRUE, val |-> AsciiBytes(s), err |-> NoError]

\* ChunkType::bytes
bytes(t) == t

\* ChunkType::is_critical
is_critical(t) == Shr(t[1], 5) % 2 = 0

\* ChunkType::is_public
is_public(t) == Shr(t[2], 5) % 2 = 0

\* ChunkType::is_reserved_bit_valid
is_reserved_bit_valid(t) == Shr(t[3], 5) % 2 = 0

\* variant of is_safe_to_copy: the bit is compared with 0, as in the other three
is_safe_to_copy_zero(t) == Shr(t[4], 5) % 2 = 0

\* ChunkType::is_safe_to_copy
is_safe_to_copy(t) == Shr(t[4], 5) % 2 = 1

\* ChunkType::is_valid
is_valid(t) == (\A i \in 1..4 : InRange(t[i])) /\ is_reserved_bit_valid(t)

(***************************************************************************)
(* Chunk                                                                   *)
(***************************************************************************)
NoChunk == [clength |-> <<0, 0>>, ctype |-> NoType, cdata |-> <<>>, ccrc |-> <<0, 0>>]

\* the fixed overhead added to the declared length in Chunk::try_from
Overhead == 12

\* variant of the size check: the length field is not counted in the overhead
SizeDiffers_overhead_8(value, clength) == Wide(Len(value)) # WideAdd(clength, 8)

\* value.len() != usize::try_from(clength).unwrap() + 12
SizeDiffers(value, clength) == Wide(Len(value)) # WideAdd(clength, Overhead)

\* impl TryFrom<&[u8]> for Chunk; at is the check that returned
Chunk_try_from(value) ==
    IF Len(value) < 4
    THEN [ok |-> FALSE, val |-> NoChunk, at |-> "header",
          err |-> throw_string_error("Insufficient data to read size")]
    ELSE
    LET clength == from_be_bytes(SubSeq(value, 1, 4)) IN
    IF SizeDiffers(value, clength)
    THEN [ok |-> FALSE, val |-> NoChunk, at |-> "size",
          err |-> throw_string_error("Malsized chunk")]
    ELSE
    LET t == ChunkType_try_from(SubSeq(value, 5, 8)) IN
    IF ~t.ok
    THEN [ok |-> FALSE, val |-> NoChunk, at |-> "type", err |-> t.err]
    ELSE
    LET cdata == SubSeq(value, 9, Len(value) - 4)
        ccrc == from_be_bytes(SubSeq(value, Len(value) - 3, Len(value)))
    IN
    IF ccrc # checksum(SubSeq(value, 5, Len(value) - 4))
    THEN [ok |-> FALSE, val |-> NoChunk, at |-> "crc",
          err |-> throw_string_error("Chunk does not match checksum")]
    ELSE [ok |-> TRUE, at |-> "return", err |-> NoError,
          val |-> [clength |-> clength, ctype |-> t.val, cdata |-> cdata, ccrc |-> ccrc]]

\* variant of Chunk::new: the checksum covers the payload only
Chunk_new_crc_of_data(chunk_type, data) ==
    [clength |-> Wide(Len(data)),
     ctype |-> chunk_type,
     cdata |-> data,
     ccrc |-> checksum(data)]

\* Chunk::new
Chunk_new(chunk_type, data) ==
    [clength |-> Wide(Len(data)),
     ctype |-> chunk_type,
     cdata |-> data,
     ccrc |-> checksum(bytes(chunk_type) \o data)]

\* Chunk::length
length(c) == c.clength

\* Chunk::chunk_type
chunk_type(c) == c.ctype

\* Chunk::data
data(c) == c.cdata

\* Chunk::crc
crc(c) == c.ccrc

\* variant of as_bytes: the type bytes come before the length
as_bytes_type_first(c) ==
    bytes(c.ctype) \o to_be_bytes(c.clength) \o c.cdata \o to_be_bytes(c.ccrc)

\* variant of as_bytes: the length is written little-endian
as_bytes_le_length(c) ==
    << c.clength[2] % 256, c.clength[2] \div 256, c.clength[1] % 256, c.clength[1] \div 256 >>
        \o bytes(c.ctype) \o c.cdata \o to_be_bytes(c.ccrc)

\* Chunk::as_bytes
as_bytes(c) ==
    to_be_bytes(c.clength) \o bytes(c.ctype) \o data(c) \o to_be_bytes(c.ccrc)

(***************************************************************************)
(* String::from_utf8: the validation and decoding of the standard library. *)
(***************************************************************************)
\* a continuation byte 10xxxxxx
IsCont(b) == b >= 128 /\ b <= 191

\* the width the first byte announces; 0 for a byte that starts no character
Utf8Width(b) ==
    IF b < 128 THEN 1
    ELSE IF b >= 194 /\ b <= 223 THEN 2
    ELSE IF b >= 224 /\ b <= 239 THEN 3
    ELSE IF b >= 240 /\ b <= 244 THEN 4
    ELSE 0

\* the range allowed for the second byte after first byte b
SecondOk(b, n) ==
    CASE b = 224 -> n >= 160 /\ n <= 191
      [] b = 237 -> n >= 128 /\ n <= 159
      [] b = 240 -> n >= 144 /\ n <= 191
      [] b = 244 -> n >= 128 /\ n <= 143
      [] OTHER -> IsCont(n)

RECURSIVE Utf8Decode(_, _, _)
\* the characters of v[i..] appended to acc, or failure
Utf8Decode(v, i, acc) ==
    IF i > Len(v) THEN [ok |-> TRUE, val |-> acc]
    ELSE
    LET b == v[i]
        w == Utf8Width(b)
    IN
    IF w = 0 \/ i + w - 1 > Len(v) THEN [ok |-> FALSE, val |-> <<>>]
    ELSE IF w = 1 THEN Utf8Decode(v, i + 1, Append(acc, b))
    ELSE IF ~SecondOk(b, v[i + 1]) THEN [ok |-> FALSE, val |-> <<>>]
    ELSE IF w = 2
    THEN Utf8Decode(v, i + 2, Append(acc, (b % 32) * 64 + (v[i + 1] % 64)))
    ELSE IF ~IsCont(v[i + 2]) THEN [ok |-> FALSE, val |-> <<>>]
    ELSE IF w = 3
    THEN Utf8Decode(v, i + 3,
             Append(acc, ((b % 16) * 64 + (v[i + 1] % 64)) * 64 + (v[i + 2] % 64)))
    ELSE IF ~IsCont(v[i + 3]) THEN [ok |-> FALSE, val |-> <<>>]
    ELSE Utf8Decode(v, i + 4,
             Append(acc, (((b % 8) * 64 + (v[i + 1] % 64)) * 64 + (v[i + 2] % 64)) * 64
                         + (v[i + 3] % 64)))

\* String::from_utf8
from_utf8(v) == Utf8Decode(v, 1, <<>>)

\* Chunk::data_as_string; outcome "panic" is the panic!() of the Err arm
data_as_string(c) ==
    LET r == from_utf8(c.cdata) IN
    IF r.ok THEN [outcome |-> "ok", val |-> r.val, err |-> NoError]
    ELSE [outcome |-> "panic", val |-> <<>>, err |-> NoError]

(***************************************************************************)
(* The state machine: one use of the library.                              *)
(*   pc    where the use stands                                            *)
(*   tin   the input of the last ChunkType constructor call                *)
(*   tres  its result                                                      *)
(*   src   the Chunk built by Chunk::new                                   *)
(*   chunk the Chunk held (built or decoded)                               *)
(*   enc   the last output of as_bytes                                     *)
(*   mut   the change made to the encoded buffer before decoding           *)
(*   buf   the bytes handed to Chunk::try_from                             *)
(*   res   the result of Chunk::try_from                                   *)
(*   sres  the result of data_as_string                                    *)
(***************************************************************************)
NoTypeResult == [ok |-> FALSE, val |-> NoType, err |-> NoError]
NoDecode == [ok |-> FALSE, val |-> NoChunk, at |-> "none", err |-> NoError]
NoString == [outcome |-> "none", val |-> <<>>, err |-> NoError]
NoMut == [kind |-> "none", pos |-> 0, bit |-> 0]

Init ==
    /\ pc = "start"
    /\ tin = [kind |-> "none", val |-> <<>>]
    /\ tres = NoTypeResult
    /\ src = NoChunk
    /\ chunk = NoChunk
    /\ enc = <<>>
    /\ mut = NoMut
    /\ buf = <<>>
    /\ res = NoDecode
    /\ sres = NoString

\* ChunkType::try_from(value) on 4 raw bytes
TypeFromBytes(value) ==
    /\ pc = "start"
    /\ tin' = [kind |-> "bytes", val |-> value]
    /\ tres' = ChunkType_try_from(value)
    /\ pc' = "typed"
    /\ UNCHANGED <<src, chunk, enc, mut, buf, res, sres>>

\* ChunkType::from_str(s)
TypeFromStr(s) ==
    /\ pc = "start"
    /\ tin' = [kind |-> "str", val |-> s]
    /\ tres' = ChunkType_from_str(s)
    /\ pc' = "typed"
    /\ UNCHANGED <<src, chunk, enc, mut, buf, res, sres>>

\* the ChunkType constructor call that input t stands for
Construct(t) ==
    IF t.kind = "bytes" THEN ChunkType_try_from(t.val) ELSE ChunkType_from_str(t.val)

\* Chunk::new(ChunkType::from_str(s).unwrap(), d), or with ChunkType::try_from
New(t, d) ==
    /\ pc = "start"
    /\ Construct(t).ok
    /\ tin' = t
    /\ tres' = Construct(t)
    /\ chunk' = Chunk_new(tres'.val, d)
    /\ src' = chunk'
    /\ pc' = "built"
    /\ UNCHANGED <<enc, mut, buf, res, sres>>

\* chunk.as_bytes(), of a built or of a decoded Chunk
Encode ==
    /\ pc \in {"built", "decoded"}
    /\ chunk # NoChunk
    /\ enc' = as_bytes(chunk)
    /\ buf' = IF pc = "built" THEN enc' ELSE buf
    /\ pc' = IF pc = "built" THEN "encoded" ELSE "reencoded"
    /\ UNCHANGED <<tin, tres, src, chunk, mut, res, sres>>

\* the byte b with bit k inverted
FlipByte(b, k) == IF Shr(b, k) % 2 = 1 THEN b - 2^k ELSE b + 2^k

\* one bit of the encoded buffer is inverted before it is decoded
FlipBit(i, k) ==
    /\ pc = "encoded"
    /\ i \in 1..Len(buf)
    /\ buf' = [buf EXCEPT ![i] = FlipByte(buf[i], k)]
    /\ mut' = [kind |-> "flip", pos |-> i, bit |-> k]
    /\ pc' = "changed"
    /\ UNCHANGED <<tin, tres, src, chunk, enc, res, sres>>

\* only the first n bytes of the encoded buffer are decoded
Truncate(n) ==
    /\ pc = "encoded"
    /\ n \in 0..(Len(buf) - 1)
    /\ buf' = SubSeq(buf, 1, n)
    /\ mut' = [kind |-> "truncate", pos |-> n, bit |-> 0]
    /\ pc' = "changed"
    /\ UNCHANGED <<tin, tres, src, chunk, enc, res, sres>>

\* a byte follows the encoded buffer
Extend(b) ==
    /\ pc = "encoded"
    /\ buf' = Append(buf, b)
    /\ mut' = [kind |-> "extend", pos |-> Len(buf) + 1, bit |-> 0]
    /\ pc' = "changed"
    /\ UNCHANGED <<tin, tres, src, chunk, enc, res, sres>>

\* a buffer laid out by a foreign writer, as the tests build theirs: a declared
\* length n, type bytes t that no constructor checked, payload d, and the CRC of t ++ d
Receive(n, t, d) ==
    /\ pc = "start"
    /\ buf' = to_be_bytes(Wide(n)) \o t \o d \o to_be_bytes(checksum(t \o d))
    /\ mut' = [kind |-> "foreign", pos |-> 0, bit |-> 0]
    /\ pc' = "changed"
    /\ UNCHANGED <<tin, tres, src, chunk, enc, res, sres>>

\* Chunk::try_from(buf)
Decode ==
    /\ pc \in {"encoded", "changed"}
    /\ res' = Chunk_try_from(buf)
    /\ chunk' = res'.val
    /\ pc' = "decoded"
    /\ UNCHANGED <<tin, tres, src, enc, mut, buf, sres>>

\* chunk.data_as_string(), of a built or of a decoded Chunk
View ==
    /\ pc \in {"built", "decoded"}
    /\ chunk # NoChunk
    /\ sres' = data_as_string(chunk)
    /\ pc' = "viewed"
    /\ UNCHANGED <<tin, tres, src, chunk, enc, mut, buf, res>>

Next ==
    \/ \E value \in [1..4 -> TypeBytes] : TypeFromBytes(value)
    \/ \E s \in SeqsUpTo(StrChars, MaxStr) : TypeFromStr(s)
    \/ \E t \in CodecTypes, d \in SeqsUpTo(DataBytes, MaxData) : New(t, d)
    \/ Encode
    \/ \E i \in 1..(MaxData + Overhead), k \in 0..7 : FlipBit(i, k)
    \/ \E n \in 0..(MaxData + Overhead) : Truncate(n)
    \/ \E b \in ExtraBytes : Extend(b)
    \/ \E n \in 0..MaxData, t \in WireTypes, d \in SeqsUpTo(DataBytes, MaxData) :
           Receive(n, t, d)
    \/ Decode
    \/ View

Spec == Init /\ [][Next]_vars

(***************************************************************************)
(* Vocabulary of the properties, stated on byte values and not through the *)
(* operators of the model.                                                 *)
(***************************************************************************)
IsUpper(b) == b \in 65..90
IsLower(b) == b \in 97..122
IsLetter(b) == IsUpper(b) \/ IsLower(b)
AllLetters(v) == \A i \in 1..Len(v) : IsLetter(v[i])

\* bit 5 of byte b
Bit5(b) == IF b % 64 >= 32 THEN 1 ELSE 0

\* the four bytes f are the big-endian form of the u32 x
IsBigEndian(f, x) ==
    /\ Len(f) = 4
    /\ \A i \in 1..4 : f[i] \in 0..255
    /\ f[1] * 256 + f[2] = x[1]
    /\ f[3] * 256 + f[4] = x[2]

\* the u32 x holds the natural n (n below 2^16)
Holds(x, n) == x[1] = 0 /\ x[2] = n

\* the first check of the decode order that input v fails, "return" if none
FirstFailed(v) ==
    IF Len(v) < 4 THEN "header"
    ELSE IF ~(v[1] = 0 /\ v[2] = 0 /\ Len(v) = v[3] * 256 + v[4] + 12) THEN "size"
    ELSE IF ~AllLetters(SubSeq(v, 5, 8)) THEN "type"
    ELSE IF ~IsBigEndian(SubSeq(v, Len(v) - 3, Len(v)), checksum(SubSeq(v, 5, Len(v) - 4)))
    THEN "crc"
    ELSE "return"

\* a flip of one bit of the type region or of the data region was decoded
FlippedInside ==
    /\ pc = "decoded"
    /\ mut.kind = "flip"
    /\ mut.pos \in 5..(Len(buf) - 4)
    /\ Chunk_try_from(enc).ok

(***************************************************************************)
(* C1  Round trip                                                          *)
(***************************************************************************)
\* C1: decoding the bytes as_bytes() produced for a Chunk built by Chunk::new
\* succeeds and yields a Chunk equal to the built one: same length, type bytes,
\* data and crc, whatever the case of the type's third letter.
C1_RoundTrip ==
    (pc = "decoded" /\ mut.kind = "none") =>
        /\ buf = enc
        /\ res.ok
        /\ res.val = src
        /\ length(chunk) = length(src)
        /\ bytes(chunk_type(chunk)) = bytes(chunk_type(src))
        /\ data(chunk) = data(src)
        /\ crc(chunk) = crc(src)

\* a Chunk with a lowercase third type letter and a payload went through
\* as_bytes and try_from
C1_Witness ==
    /\ pc = "decoded"
    /\ mut.kind = "none"
    /\ res.ok
    /\ tin.kind = "str"
    /\ IsLower(src.ctype[3])
    /\ Len(src.cdata) > 0

(***************************************************************************)
(* C2  Type validity gate                                                  *)
(***************************************************************************)
\* C2: ChunkType::try_from on 4 raw bytes succeeds only if all 4 bytes are
\* ASCII letters and bit 5 of the third byte is 0, and fails otherwise; every
\* ChunkType it returns, and the chunk_type() of every decoded Chunk, is_valid().
C2_TypeGate ==
    /\ (pc = "typed" /\ tin.kind = "bytes") =>
           /\ tres.ok <=> (AllLetters(tin.val) /\ Bit5(tin.val[3]) = 0)
           /\ tres.ok => is_valid(tres.val)
    /\ (pc = "decoded" /\ res.ok) => is_valid(chunk_type(chunk))

(***************************************************************************)
(* C3  Checksum sensitivity                                                *)
(***************************************************************************)
\* C3 as claimed: a flip of any single bit of the type or data region of a
\* buffer that decodes makes decode fail, and the failure is the checksum
\* mismatch.
C3_FlipIsChecksumMismatch ==
    FlippedInside => (~res.ok /\ res.at = "crc")

\* C3 as amended: such a flip always makes decode fail; the failure is the
\* checksum mismatch when the four type bytes of the flipped buffer are still
\* ASCII letters (so for every flip in the data region), and the rejection of
\* the type bytes otherwise.
C3_FlipFails ==
    FlippedInside =>
        /\ ~res.ok
        /\ chunk = NoChunk
        /\ AllLetters(SubSeq(buf, 5, 8)) => res.at = "crc"
        /\ ~AllLetters(SubSeq(buf, 5, 8)) => res.at = "type"
        /\ mut.pos > 8 => res.at = "crc"

\* a flip inside the type region left four letters and was caught by the checksum
C3_Witness ==
    /\ FlippedInside
    /\ mut.pos \in 5..8
    /\ AllLetters(SubSeq(buf, 5, 8))
    /\ ~res.ok
    /\ res.at = "crc"

(***************************************************************************)
(* C4  Payload as text                                                     *)
(***************************************************************************)
\* C4: data_as_string() returns the payload as text when it is valid UTF-8,
\* returns an error value when it is not, and never panics.
C4_ViewReturns ==
    pc = "viewed" =>
        \/ sres.outcome = "ok" /\ from_utf8(data(chunk)).ok
        \/ sres.outcome = "err" /\ ~from_utf8(data(chunk)).ok

(***************************************************************************)
(* C5  ChunkType from a string                                             *)
(***************************************************************************)
\* C5 as claimed: from_str succeeds iff the string has exactly 4 characters,
\* all ASCII letters; every string whose character count is not 4 is rejected
\* for its length, every 4-character string with a non-letter for its character.
C5_FromStrByLengthFirst ==
    (pc = "typed" /\ tin.kind = "str") =>
        /\ tres.ok <=> (Len(tin.val) = 4 /\ AllLetters(tin.val))
        /\ Len(tin.val) # 4 => tres.err = StrError("String length incorrect size")
        /\ (Len(tin.val) = 4 /\ ~AllLetters(tin.val)) =>
               tres.err = StrError("Character value out of range")

\* C5 as amended: from_str succeeds iff the string has exactly 4 characters,
\* all ASCII letters, and then holds those 4 bytes, reserved bit unchecked;
\* every string containing a non-letter, whatever its length, is rejected for
\* its character, every string of letters whose count is not 4 for its length.
C5_FromStr ==
    (pc = "typed" /\ tin.kind = "str") =>
        /\ tres.ok <=> (Len(tin.val) = 4 /\ AllLetters(tin.val))
        /\ tres.ok => (bytes(tres.val) = tin.val /\ tres.err = NoError)
        /\ (tres.ok /\ IsLower(tin.val[3])) => ~is_valid(tres.val)
        /\ ~AllLetters(tin.val) => tres.err = StrError("Character value out of range")
        /\ (AllLetters(tin.val) /\ Len(tin.val) # 4) =>
               tres.err = StrError("String length incorrect size")

\* a string of the wrong length holding a non-letter was rejected for its character
C5_Witness ==
    /\ pc = "typed"
    /\ tin.kind = "str"
    /\ Len(tin.val) \notin {0, 4}
    /\ ~AllLetters(tin.val)
    /\ ~tres.ok
    /\ tres.err = StrError("Character value out of range")

(***************************************************************************)
(* C6  Order and identity of the decode errors                             *)
(***************************************************************************)
\* C6: decode fails at the first failing check of the order header, size,
\* type, checksum, and the error returned identifies that check: two inputs
\* that fail different checks return different errors.
C6_ErrorsTellChecksApart ==
    (pc = "decoded" /\ ~res.ok) =>
        /\ res.at = FirstFailed(buf)
        /\ \A n \in 0..Len(buf) :
               LET other == Chunk_try_from(SubSeq(buf, 1, n)) IN
               (~other.ok /\ other.at # res.at) => other.err # res.err

(***************************************************************************)
(* C7  Encode layout                                                       *)
(***************************************************************************)
\* C7: as_bytes() returns exactly length() + 12 bytes: length() as 4
\* big-endian bytes, the 4 type bytes, the payload in order, crc() as 4
\* big-endian bytes.
C7_EncodeLayout ==
    pc \in {"encoded", "reencoded"} =>
        LET n == Len(data(chunk)) IN
        /\ Holds(length(chunk), Len(enc) - 12)
        /\ IsBigEndian(SubSeq(enc, 1, 4), length(chunk))
        /\ \A i \in 1..4 : enc[4 + i] = bytes(chunk_type(chunk))[i]
        /\ \A i \in 1..n : enc[8 + i] = data(chunk)[i]
        /\ IsBigEndian(SubSeq(enc, 9 + n, 12 + n), crc(chunk))

\* a Chunk with a payload was encoded
C7_Witness ==
    /\ pc = "encoded"
    /\ Len(data(chunk)) > 1
    /\ Len(enc) = Len(data(chunk)) + 12

(***************************************************************************)
(* C8  Bit predicates                                                      *)
(***************************************************************************)
\* C8: for every ChunkType, is_critical() iff the first letter is uppercase,
\* is_public() iff the second is, is_reserved_bit_valid() iff the third is,
\* is_safe_to_copy() iff the fourth is lowercase.
C8_BitPredicates ==
    (pc \in {"typed", "built"} /\ tres.ok) =>
        /\ is_critical(tres.val) <=> IsUpper(tres.val[1])
        /\ is_public(tres.val) <=> IsUpper(tres.val[2])
        /\ is_reserved_bit_valid(tres.val) <=> IsUpper(tres.val[3])
        /\ is_safe_to_copy(tres.val) <=> IsLower(tres.val[4])
        /\ is_critical(tres.val) <=> Bit5(tres.val[1]) = 0
        /\ is_safe_to_copy(tres.val) <=> Bit5(tres.val[4]) = 1

\* a type that is critical, private, reserved-bit valid and safe to copy was built
C8_Witness ==
    /\ pc = "typed"
    /\ tres.ok
    /\ is_critical(tres.val)
    /\ ~is_public(tres.val)
    /\ is_reserved_bit_valid(tres.val)
    /\ is_safe_to_copy(tres.val)

(***************************************************************************)
(* C9  Length invariant                                                    *)
(***************************************************************************)
\* C9: every Chunk, built or decoded, has length() == data().len(); for a
\* decoded Chunk it is the big-endian value of the first 4 input bytes.
C9_LengthInvariant ==
    chunk # NoChunk =>
        /\ Holds(length(chunk), Len(data(chunk)))
        /\ (pc = "decoded") => IsBigEndian(SubSeq(buf, 1, 4), length(chunk))

\* a foreign buffer with a payload was decoded
C9_Witness ==
    /\ pc = "decoded"
    /\ mut.kind = "foreign"
    /\ res.ok
    /\ Len(data(chunk)) > 0

(***************************************************************************)
(* C10  Canonical encoding                                                 *)
(***************************************************************************)
\* C10: for every buffer on which decode succeeds, as_bytes() of the decoded
\* Chunk reproduces the buffer byte for byte.
C10_Canonical ==
    /\ pc = "reencoded" => enc = buf
    /\ (pc = "decoded" /\ res.ok) => as_bytes(chunk) = buf

\* a decoded foreign buffer was encoded again
C10_Witness ==
    /\ pc = "reencoded"
    /\ mut.kind = "foreign"
    /\ Len(buf) > 12

====
